---- MODULE Spec2Model ----
(***************************************************************************)
(* Model of the batch file-transform server (server.js = part_000, the     *)
(* child-process script crypto-process.js = part_001 and the worker-thread *)
(* script crypto-worker.js = part_002).  One POST /process request is      *)
(* followed from its arrival to the response, together with the workers    *)
(* or children that the request starts.  The Caesar transform is modelled  *)
(* on strings represented as sequences of character codes.                 *)
(***************************************************************************)
EXTENDS Integers, Sequences, FiniteSets

VARIABLES
    files,      \* req.body.files: the uploaded jobs of the request
    operation,  \* req.body.operation
    method,     \* req.body.method
    shift,      \* req.body.shift (defaults to 3)
    cores,      \* os.cpus().length
    pc,         \* position of the POST /process handler
    loop,       \* processSequentially: index of the current file and its step
    results,    \* the `results` array of the running strategy
    workers,    \* the worker threads / child processes started by the request
    response,   \* what res.json()/res.status().json() sent to the caller
    processed,  \* the files present in the processed/ directory
    roundTrip,  \* a file that is encrypted and whose output is decrypted again
    env,        \* what the host may do during the request: how far the clock
                \* advances, the values Math.random() returns, whether a
                \* child's stdout arrives in several 'data' events
    clock,      \* the value Date.now() returns
    startTime,  \* `startTime` of the running strategy
    writes,     \* the fs.writeFile calls made: output name and source path
    download,   \* the answer of GET /download/:filename to the caller's fetch
    other       \* a second request in flight: its body and the locals of its handler

vars == <<files, operation, method, shift, cores, pc, loop, results, workers,
          response, processed, roundTrip, env, clock, startTime, writes, download, other>>

----------------------------------------------------------------------------
(* Bounds of the model *)

MaxJobs == 5     \* longest job list of a request that is run to its response
MaxFaults == 1   \* most files of one request whose read or write fails
MaxBatch == 8    \* longest job list that is partitioned
MaxCores == 8    \* most cores of a host whose job list is partitioned
MaxLen == 3      \* longest text that is transformed
MaxShift == 27   \* largest shift, in either direction
MaxEnvJobs == 2  \* longest job list of a request run while the clock moves
MaxTicks == 2    \* most milliseconds that pass during such a request
MaxTokens == 2   \* number of values Math.random() can return
MaxPipeJobs == 3 \* longest job list of a request whose pipes split the output
MaxPairJobs == 2 \* longest job list of each of two requests in flight together

----------------------------------------------------------------------------
(* JavaScript primitives used by the program *)

\* a % n of JavaScript: the sign of the result follows the dividend
JSRem(a, n) == IF a >= 0 THEN a % n ELSE 0 - ((0 - a) % n)

\* String.fromCharCode(n): n is reduced to an unsigned 16-bit code unit
FromCharCode(n) == n % 65536

\* Math.min(a, b)
MathMin(a, b) == IF a <= b THEN a ELSE b

\* Math.ceil(a / b) for a >= 0, b > 0
MathCeilDiv(a, b) == (a + b - 1) \div b

\* Array.prototype.slice(from, to) with 0-based, end-exclusive indices
Slice(s, from, to) == SubSeq(s, from + 1, MathMin(to, Len(s)))

\* the regular expression /[a-zA-Z]/ on one character code
IsLetter(c) == (c >= 65 /\ c <= 90) \/ (c >= 97 /\ c <= 122)

----------------------------------------------------------------------------
(* caesarCipher: the copy of the server, of the worker thread and of the   *)
(* child process                                                            *)

\* caesarCipher without the `+ 26` that keeps the dividend of % non-negative
caesarCipherNoWrap(text, s, decrypt) ==
    LET actualShift == IF decrypt THEN 0 - s ELSE s
        replace(char) ==
            LET start == IF char <= 90 THEN 65 ELSE 97
            IN  FromCharCode(JSRem(char - start + actualShift, 26) + start)
    IN  [i \in 1..Len(text) |->
            IF IsLetter(text[i]) THEN replace(text[i]) ELSE text[i]]

caesarCipher(text, s, decrypt) ==
    LET actualShift == IF decrypt THEN 0 - s ELSE s
        replace(char) ==
            LET start == IF char <= 90 THEN 65 ELSE 97
            IN  FromCharCode(JSRem(char - start + actualShift + 26, 26) + start)
    IN  [i \in 1..Len(text) |->
            IF IsLetter(text[i]) THEN replace(text[i]) ELSE text[i]]

\* caesarCipher with `char < 'Z'` in place of `char <= 'Z'`
workerCaesarCipherBelowZ(text, s, decrypt) ==
    LET actualShift == IF decrypt THEN 0 - s ELSE s
        replace(char) ==
            LET start == IF char < 90 THEN 65 ELSE 97
            IN  FromCharCode(JSRem(char - start + actualShift + 26, 26) + start)
    IN  [i \in 1..Len(text) |->
            IF IsLetter(text[i]) THEN replace(text[i]) ELSE text[i]]

workerCaesarCipher(text, s, decrypt) ==
    LET actualShift == IF decrypt THEN 0 - s ELSE s
        replace(char) ==
            LET start == IF char <= 90 THEN 65 ELSE 97
            IN  FromCharCode(JSRem(char - start + actualShift + 26, 26) + start)
    IN  [i \in 1..Len(text) |->
            IF IsLetter(text[i]) THEN replace(text[i]) ELSE text[i]]

childCaesarCipher(text, s, decrypt) ==
    LET actualShift == IF decrypt THEN 0 - s ELSE s
        replace(char) ==
            LET start == IF char <= 90 THEN 65 ELSE 97
            IN  FromCharCode(JSRem(char - start + actualShift + 26, 26) + start)
    IN  [i \in 1..Len(text) |->
            IF IsLetter(text[i]) THEN replace(text[i]) ELSE text[i]]

----------------------------------------------------------------------------
(* Partitioning of the job list, as done by the dispatch loops *)

\* the dispatch loop without `if (workerFiles.length === 0) break`
RECURSIVE WorkerDispatchLoopNoBreak(_, _, _, _, _)
WorkerDispatchLoopNoBreak(fs, i, numWorkers, filesPerWorker, acc) ==
    IF ~(i < numWorkers) THEN acc
    ELSE LET workerFiles == Slice(fs, i * filesPerWorker, (i + 1) * filesPerWorker)
         IN  WorkerDispatchLoopNoBreak(fs, i + 1, numWorkers, filesPerWorker,
                                       Append(acc, workerFiles))

RECURSIVE WorkerDispatchLoop(_, _, _, _, _)
WorkerDispatchLoop(fs, i, numWorkers, filesPerWorker, acc) ==
    IF ~(i < numWorkers) THEN acc
    ELSE LET workerFiles == Slice(fs, i * filesPerWorker, (i + 1) * filesPerWorker)
         IN  IF Len(workerFiles) = 0 THEN acc
             ELSE WorkerDispatchLoop(fs, i + 1, numWorkers, filesPerWorker,
                                     Append(acc, workerFiles))

numWorkersOf(fs, cpus) == MathMin(cpus, Len(fs))

\* files per worker with Math.floor in place of Math.ceil
filesPerWorkerFloor(fs, cpus) == Len(fs) \div numWorkersOf(fs, cpus)

filesPerWorkerOf(fs, cpus) == MathCeilDiv(Len(fs), numWorkersOf(fs, cpus))

\* the shards handed to `new Worker(...)`, in dispatch order
WorkerShards(fs, cpus) ==
    WorkerDispatchLoop(fs, 0, numWorkersOf(fs, cpus), filesPerWorkerOf(fs, cpus), <<>>)

RECURSIVE ProcessDispatchLoop(_, _, _, _, _)
ProcessDispatchLoop(fs, i, numProcesses, filesPerProcess, acc) ==
    IF ~(i < numProcesses) THEN acc
    ELSE LET processFiles == Slice(fs, i * filesPerProcess, (i + 1) * filesPerProcess)
         IN  IF Len(processFiles) = 0 THEN acc
             ELSE ProcessDispatchLoop(fs, i + 1, numProcesses, filesPerProcess,
                                      Append(acc, processFiles))

numProcessesOf(fs, cpus) == MathMin(cpus, Len(fs))

\* files per process with Math.floor in place of Math.ceil
filesPerProcessFloor(fs, cpus) == Len(fs) \div numProcessesOf(fs, cpus)

filesPerProcessOf(fs, cpus) == MathCeilDiv(Len(fs), numProcessesOf(fs, cpus))

\* the shards handed to `spawn('node', ...)`, in dispatch order
ProcessShards(fs, cpus) ==
    ProcessDispatchLoop(fs, 0, numProcessesOf(fs, cpus), filesPerProcessOf(fs, cpus), <<>>)

----------------------------------------------------------------------------
(* Files, paths, results and responses *)

\* the content of every uploaded file: "Hello"
Hello == <<72, 101, 108, 108, 111>>

\* what can go wrong with one job's files on disk
Faults == {"none", "read", "write"}

\* the request bodies considered: a job is an uploaded file; `fault` records
\* whether fs.readFile of its path or fs.writeFile of its output throws
JobLists ==
    UNION { { [i \in 1..n |-> [originalname |-> i, path |-> i,
                                content |-> Hello, fault |-> f[i]]] :
              f \in { g \in [1..n -> Faults] :
                        Cardinality({i \in 1..n : g[i] # "none"}) <= MaxFaults } } :
            n \in 0..MaxJobs }

Methods == {"sequential", "multithreading", "multiprocessing", "unknown"}

\* os.cpus().length of the hosts on which requests are run to their response
CoreCounts == {1, 2, 4}

\* path.join('processed', name) and path.basename(p)
PathJoin(dir, name) == [dir |-> dir, base |-> name]
PathBasename(p) == [dir |-> "", base |-> p.base]

\* `${operation}_${Date.now()}_${file.originalname}` of processSequentially
OutputName(op, now, file) ==
    [operation |-> op, time |-> now, token |-> <<>>,
     originalname |-> file.originalname]

\* `${operation}_${Date.now()}_${Math.random().toString(36).substr(2, 9)}_${file.originalname}`
\* of a worker thread
WorkerOutputName(op, now, random, file) ==
    [operation |-> op, time |-> now, token |-> <<random>>,
     originalname |-> file.originalname]

\* the same name, as built by a child process
ChildOutputName(op, now, random, file) ==
    [operation |-> op, time |-> now, token |-> <<random>>,
     originalname |-> file.originalname]

\* fs.writeFile(outputPath, content): the file is created or replaced
WriteFile(dir, name, content) ==
    { f \in dir : f.name # name } \cup {[name |-> name, content |-> content]}

NoResponse == [status |-> 0]

\* res.json({ success: true, ...result })
OutcomeResponse(rs, time, name) ==
    [status |-> 200, success |-> TRUE, results |-> rs, processingTime |-> time,
     method |-> name]

\* res.status(400).json({ success: false, message })
BadRequest(message) == [status |-> 400, success |-> FALSE, message |-> message]

\* res.status(500).json({ success: false, message, error })
ServerError(error) ==
    [status |-> 500, success |-> FALSE, message |-> "Error processing files",
     error |-> error]

\* JSON.stringify of a result list, as the text written to stdout
JSONStringify(rs) ==
    <<[tok |-> "["]>> \o [i \in 1..Len(rs) |-> [tok |-> "item", item |-> rs[i]]]
                      \o <<[tok |-> "]"]>>

\* whether JSON.parse(text) returns instead of throwing a SyntaxError
JSONParses(text) ==
    /\ Len(text) >= 2
    /\ text[1].tok = "["
    /\ text[Len(text)].tok = "]"
    /\ \A i \in 2..(Len(text) - 1) : text[i].tok = "item"

\* JSON.parse(text) of a text that parses
JSONParse(text) == [i \in 1..(Len(text) - 2) |-> text[i + 1].item]

IdleRoundTrip == [pc |-> "off"]

\* a host on which the request is over within one millisecond, Math.random()
\* returns one value and a child's stdout arrives in one 'data' event
QuietEnv == [ticks |-> 0, tokens |-> {1}, chunked |-> FALSE]

NoDownload == [status |-> 0]

\* no second request is in flight
NoRequest == [id |-> 0]

----------------------------------------------------------------------------
(* The state after the server has started and a request has arrived *)

Init ==
    /\ files \in JobLists
    /\ operation = "encrypt"
    /\ method \in Methods
    /\ shift = 3
    /\ cores \in CoreCounts
    /\ pc = "idle"
    /\ loop = [i |-> 0, stage |-> "read"]
    /\ results = <<>>
    /\ workers = <<>>
    /\ response = NoResponse
    /\ processed = {}
    /\ env = QuietEnv
    /\ clock = 0
    /\ startTime = 0
    /\ writes = {}
    /\ download = NoDownload
    /\ other = NoRequest
    /\ roundTrip = IdleRoundTrip

request == <<files, operation, method, shift, cores, env>>

disk == <<processed, writes>>

aside == <<roundTrip, clock, startTime, download, other>>

----------------------------------------------------------------------------
(* POST /process: validation and dispatch *)

RejectNoFiles ==
    /\ pc = "idle"
    /\ Len(files) = 0
    /\ pc' = "rejected"
    /\ response' = BadRequest("No files provided")
    /\ UNCHANGED <<request, loop, results, workers, disk, aside>>

RejectInvalidMethod ==
    /\ pc = "idle"
    /\ Len(files) # 0
    /\ method \notin {"multithreading", "multiprocessing", "sequential"}
    /\ pc' = "rejected"
    /\ response' = BadRequest("Invalid processing method")
    /\ UNCHANGED <<request, loop, results, workers, disk, aside>>

\* POST /process whose switch runs the sequential strategy in its default case
StartSequentialByDefault ==
    /\ pc = "idle"
    /\ Len(files) # 0
    /\ method \notin {"multithreading", "multiprocessing"}
    /\ pc' = "sequential"
    /\ loop' = [i |-> 1, stage |-> "read"]
    /\ startTime' = clock
    /\ results' = <<>>
    /\ UNCHANGED <<request, workers, response, disk, roundTrip, clock, download, other>>

StartSequential ==
    /\ pc = "idle"
    /\ Len(files) # 0
    /\ method = "sequential"
    /\ pc' = "sequential"
    /\ loop' = [i |-> 1, stage |-> "read"]
    /\ startTime' = clock
    /\ results' = <<>>
    /\ UNCHANGED <<request, workers, response, disk, roundTrip, clock, download, other>>

\* new Worker(..., { workerData: { files: workerFiles, operation, shift } })
NewWorker(workerFiles) ==
    [files |-> workerFiles, pos |-> 1, stage |-> "read", results |-> <<>>,
     status |-> "running", port |-> <<>>, promise |-> "pending"]

StartWorkerThreads ==
    /\ pc = "idle"
    /\ Len(files) # 0
    /\ method = "multithreading"
    /\ LET shards == WorkerShards(files, cores)
       IN  workers' = [w \in 1..Len(shards) |-> NewWorker(shards[w])]
    /\ startTime' = clock
    /\ results' = <<>>
    /\ pc' = "join"
    /\ UNCHANGED <<request, loop, response, disk, roundTrip, clock, download, other>>

\* spawn('node', [script, JSON.stringify({ files: processFiles, operation, shift })])
NewChild(processFiles) ==
    [files |-> processFiles, pos |-> 1, stage |-> "read", results |-> <<>>,
     status |-> "running", exitCode |-> 0, stdout |-> <<>>, output |-> <<>>,
     closed |-> FALSE, promise |-> "pending"]

StartChildProcesses ==
    /\ pc = "idle"
    /\ Len(files) # 0
    /\ method = "multiprocessing"
    /\ LET shards == ProcessShards(files, cores)
       IN  workers' = [w \in 1..Len(shards) |-> NewChild(shards[w])]
    /\ startTime' = clock
    /\ results' = <<>>
    /\ pc' = "join"
    /\ UNCHANGED <<request, loop, response, disk, roundTrip, clock, download, other>>

----------------------------------------------------------------------------
(* processSequentially: one loop iteration is a read step and a write step *)

\* the loop moves to the next file, or returns and the handler answers
SeqAdvance(rs) ==
    /\ results' = rs
    /\ IF loop.i < Len(files)
       THEN /\ loop' = [i |-> loop.i + 1, stage |-> "read"]
            /\ UNCHANGED <<pc, response>>
       ELSE /\ loop' = [i |-> loop.i + 1, stage |-> "read"]
            /\ pc' = "done"
            /\ response' = OutcomeResponse(rs, clock - startTime, "Sequential")

\* the entry pushed by the sequential loop
SeqResult(file) ==
    [originalName |-> file.originalname,
     processedPath |-> PathJoin("processed", OutputName(operation, clock, file)),
     size |-> Len(file.content)]

SeqRead ==
    /\ pc = "sequential"
    /\ loop.stage = "read"
    /\ IF files[loop.i].fault = "read"
       THEN SeqAdvance(results)            \* catch: console.error, next file
       ELSE /\ loop' = [loop EXCEPT !.stage = "write"]
            /\ UNCHANGED <<pc, results, response>>
    /\ UNCHANGED <<request, workers, disk, aside>>

SeqWrite ==
    /\ pc = "sequential"
    /\ loop.stage = "write"
    /\ LET file == files[loop.i]
           processedContent == caesarCipher(file.content, shift, operation = "decrypt")
       IN  IF file.fault = "write"
           THEN /\ SeqAdvance(results)     \* catch: console.error, next file
                /\ UNCHANGED disk
           ELSE /\ processed' = WriteFile(processed, OutputName(operation, clock, file),
                                           processedContent)
                /\ writes' = writes \cup {[name |-> OutputName(operation, clock, file),
                                            path |-> file.path]}
                /\ SeqAdvance(Append(results, SeqResult(file)))
    /\ UNCHANGED <<request, workers, aside>>

----------------------------------------------------------------------------
(* The join: `await Promise.all(...)` of both parallel strategies, followed *)
(* by the return of the outcome or by the catch of POST /process.  It runs  *)
(* in the turn of the event handler that settles the last promise or that   *)
(* rejects the first one.                                                   *)

AllResolved(ws) == \A w \in 1..Len(ws) : ws[w].promise = "resolved"

Settle(ws, rs, rejectedWith, name) ==
    /\ workers' = ws
    /\ results' = rs
    /\ IF pc = "join" /\ rejectedWith # ""
       THEN /\ pc' = "error"
            /\ response' = ServerError(rejectedWith)
       ELSE IF pc = "join" /\ AllResolved(ws)
       THEN /\ pc' = "done"
            /\ response' = OutcomeResponse(rs, clock - startTime, name)
       ELSE UNCHANGED <<pc, response>>

----------------------------------------------------------------------------
(* crypto-worker.js: processFiles of a worker thread *)

\* the entry pushed by a worker thread
WorkerResult(name, file) ==
    [originalName |-> file.originalname,
     processedPath |-> PathBasename(PathJoin("processed", name)),
     size |-> Len(file.content),
     operation |-> operation]

\* catch (error): parentPort.postMessage([])
WorkerCatch(w) ==
    workers' = [workers EXCEPT ![w] =
                   [@ EXCEPT !.status = "finished", !.port = <<(<<>>)>>]]

WorkerRead(w) ==
    /\ w \in 1..Len(workers)
    /\ method = "multithreading"
    /\ workers[w].status = "running"
    /\ workers[w].stage = "read"
    /\ IF workers[w].files[workers[w].pos].fault = "read"
       THEN WorkerCatch(w)
       ELSE workers' = [workers EXCEPT ![w] = [@ EXCEPT !.stage = "write"]]
    /\ UNCHANGED <<request, pc, loop, results, response, disk, aside>>

WorkerWrite(w) ==
    /\ w \in 1..Len(workers)
    /\ method = "multithreading"
    /\ workers[w].status = "running"
    /\ workers[w].stage = "write"
    /\ \E random \in env.tokens :
       LET me == workers[w]
           file == me.files[me.pos]
           processedContent ==
               workerCaesarCipher(file.content, shift, operation = "decrypt")
           name == WorkerOutputName(operation, clock, random, file)
           rs == Append(me.results, WorkerResult(name, file))
       IN  IF file.fault = "write"
           THEN /\ WorkerCatch(w)
                /\ UNCHANGED disk
           ELSE /\ processed' = WriteFile(processed, name, processedContent)
                /\ writes' = writes \cup {[name |-> name, path |-> file.path]}
                /\ IF me.pos < Len(me.files)
                   THEN workers' = [workers EXCEPT ![w] =
                            [@ EXCEPT !.results = rs, !.pos = me.pos + 1,
                                      !.stage = "read"]]
                   ELSE \* end of the loop: parentPort.postMessage(results)
                        workers' = [workers EXCEPT ![w] =
                            [@ EXCEPT !.results = rs, !.pos = me.pos + 1,
                                      !.status = "finished", !.port = <<rs>>]]
    /\ UNCHANGED <<request, pc, loop, results, response, aside>>

\* the worker thread ends without a message and without an error event:
\* only 'message' and 'error' are listened to, so no handler runs
WorkerExit(w) ==
    /\ w \in 1..Len(workers)
    /\ method = "multithreading"
    /\ workers[w].status = "running"
    /\ workers' = [workers EXCEPT ![w] = [@ EXCEPT !.status = "ended"]]
    /\ UNCHANGED <<request, pc, loop, results, response, disk, aside>>

----------------------------------------------------------------------------
(* processWithWorkerThreads: the event handlers of one worker *)

\* a 'message' handler that puts each entry at the front of the aggregate:
\* for (const r of result) results.unshift(r)
OnWorkerMessageUnshift(w) ==
    /\ w \in 1..Len(workers)
    /\ method = "multithreading"
    /\ workers[w].port # <<>>
    /\ LET result == workers[w].port[1]
           reversed == [i \in 1..Len(result) |-> result[Len(result) + 1 - i]]
       IN  Settle([workers EXCEPT ![w] =
                      [@ EXCEPT !.port = <<>>,
                                !.promise = IF @ = "pending" THEN "resolved" ELSE @]],
                  reversed \o results, "", "Worker Threads")
    /\ UNCHANGED <<request, loop, disk, aside>>

\* worker.on('message', (result) => { results.push(...result); resolve(); })
OnWorkerMessage(w) ==
    /\ w \in 1..Len(workers)
    /\ method = "multithreading"
    /\ workers[w].port # <<>>
    /\ Settle([workers EXCEPT ![w] =
                  [@ EXCEPT !.port = <<>>,
                            !.promise = IF @ = "pending" THEN "resolved" ELSE @]],
              results \o workers[w].port[1], "", "Worker Threads")
    /\ UNCHANGED <<request, loop, disk, aside>>

\* worker.on('error', reject): the worker thread dies of an uncaught error
\* before it has posted its message
OnWorkerError(w) ==
    /\ w \in 1..Len(workers)
    /\ method = "multithreading"
    /\ workers[w].status = "running"
    /\ Settle([workers EXCEPT ![w] =
                  [@ EXCEPT !.status = "crashed", !.promise = "rejected"]],
              results, "worker error", "Worker Threads")
    /\ UNCHANGED <<request, loop, disk, aside>>

----------------------------------------------------------------------------
(* crypto-process.js: processFiles of a child process *)

\* the entry pushed by a child process
ChildResult(name, file) ==
    [originalName |-> file.originalname,
     processedPath |-> PathBasename(PathJoin("processed", name)),
     size |-> Len(file.content),
     operation |-> operation]

\* catch (error): console.log(JSON.stringify([])); process.exit(1)
ChildCatch(w) ==
    workers' = [workers EXCEPT ![w] =
                   [@ EXCEPT !.status = "exited", !.exitCode = 1,
                             !.stdout = @ \o JSONStringify(<<>>)]]

ChildRead(w) ==
    /\ w \in 1..Len(workers)
    /\ method = "multiprocessing"
    /\ workers[w].status = "running"
    /\ workers[w].stage = "read"
    /\ IF workers[w].files[workers[w].pos].fault = "read"
       THEN ChildCatch(w)
       ELSE workers' = [workers EXCEPT ![w] = [@ EXCEPT !.stage = "write"]]
    /\ UNCHANGED <<request, pc, loop, results, response, disk, aside>>

ChildWrite(w) ==
    /\ w \in 1..Len(workers)
    /\ method = "multiprocessing"
    /\ workers[w].status = "running"
    /\ workers[w].stage = "write"
    /\ \E random \in env.tokens :
       LET me == workers[w]
           file == me.files[me.pos]
           processedContent ==
               childCaesarCipher(file.content, shift, operation = "decrypt")
           name == ChildOutputName(operation, clock, random, file)
           rs == Append(me.results, ChildResult(name, file))
       IN  IF file.fault = "write"
           THEN /\ ChildCatch(w)
                /\ UNCHANGED disk
           ELSE /\ processed' = WriteFile(processed, name, processedContent)
                /\ writes' = writes \cup {[name |-> name, path |-> file.path]}
                /\ IF me.pos < Len(me.files)
                   THEN workers' = [workers EXCEPT ![w] =
                            [@ EXCEPT !.results = rs, !.pos = me.pos + 1,
                                      !.stage = "read"]]
                   ELSE \* end of the loop: console.log(JSON.stringify(results)),
                        \* then the process ends with status 0
                        workers' = [workers EXCEPT ![w] =
                            [@ EXCEPT !.results = rs, !.pos = me.pos + 1,
                                      !.status = "exited", !.exitCode = 0,
                                      !.stdout = @ \o JSONStringify(rs)]]
    /\ UNCHANGED <<request, pc, loop, results, response, aside>>

\* the child is killed by a signal before it has written anything: `code`
\* of its 'close' event is null, modelled as -1
ChildKilled(w) ==
    /\ w \in 1..Len(workers)
    /\ method = "multiprocessing"
    /\ workers[w].status = "running"
    /\ workers' = [workers EXCEPT ![w] =
                      [@ EXCEPT !.status = "exited", !.exitCode = 0 - 1]]
    /\ UNCHANGED <<request, pc, loop, results, response, disk, aside>>

----------------------------------------------------------------------------
(* processWithChildProcesses: the event handlers of one child *)

\* a 'data' handler that parses and merges the buffer as soon as it holds a
\* whole list, instead of leaving that to the 'close' handler
OnChildDataParse(w) ==
    /\ w \in 1..Len(workers)
    /\ method = "multiprocessing"
    /\ workers[w].stdout # <<>>
    /\ \E k \in IF env.chunked THEN 1..Len(workers[w].stdout)
                                 ELSE {Len(workers[w].stdout)} :
          LET output == workers[w].output \o SubSeq(workers[w].stdout, 1, k)
          IN  /\ workers' = [workers EXCEPT ![w] =
                     [@ EXCEPT !.output = output,
                               !.stdout = SubSeq(@, k + 1, Len(@))]]
              /\ results' = IF JSONParses(output) THEN results \o JSONParse(output)
                                                  ELSE results
    /\ UNCHANGED <<request, pc, loop, response, disk, aside>>

\* child.stdout.on('data', (data) => { output += data.toString(); })
OnChildData(w) ==
    /\ w \in 1..Len(workers)
    /\ method = "multiprocessing"
    /\ workers[w].stdout # <<>>
    /\ \E k \in IF env.chunked THEN 1..Len(workers[w].stdout)
                                 ELSE {Len(workers[w].stdout)} :
          workers' = [workers EXCEPT ![w] =
              [@ EXCEPT !.output = @ \o SubSeq(workers[w].stdout, 1, k),
                        !.stdout = SubSeq(@, k + 1, Len(@))]]
    /\ UNCHANGED <<request, pc, loop, results, response, disk, aside>>

\* child.on('close', (code) => { ... }): emitted once the child has ended
\* and its stdout has been drained
OnChildClose(w) ==
    /\ w \in 1..Len(workers)
    /\ method = "multiprocessing"
    /\ workers[w].status = "exited"
    /\ workers[w].stdout = <<>>
    /\ ~workers[w].closed
    /\ LET me == workers[w]
           settle(to) == [workers EXCEPT ![w] =
                             [@ EXCEPT !.closed = TRUE,
                                       !.promise = IF @ = "pending" THEN to ELSE @]]
       IN  IF me.exitCode = 0
           THEN IF JSONParses(me.output)
                THEN Settle(settle("resolved"), results \o JSONParse(me.output),
                            "", "Child Processes")
                ELSE Settle(settle("rejected"), results,
                            "Unexpected end of JSON input", "Child Processes")
           ELSE Settle(settle("rejected"), results,
                       "Process exited with code", "Child Processes")
    /\ UNCHANGED <<request, loop, disk, aside>>

\* child.on('error', reject): the process could not be spawned
OnChildError(w) ==
    /\ w \in 1..Len(workers)
    /\ method = "multiprocessing"
    /\ workers[w].status = "running"
    /\ workers[w].pos = 1
    /\ workers[w].stage = "read"
    /\ Settle([workers EXCEPT ![w] =
                  [@ EXCEPT !.status = "failed", !.closed = TRUE,
                            !.promise = "rejected"]],
              results, "spawn error", "Child Processes")
    /\ UNCHANGED <<request, loop, disk, aside>>

----------------------------------------------------------------------------
(* GET /download/:filename, called by the caller with a reference taken from *)
(* the outcome it received, or with a name that was never generated          *)

\* a file name that no strategy generates: no job has originalname 0
NeverGenerated ==
    [dir |-> "", base |-> [operation |-> operation, time |-> 0, token |-> <<>>,
                           originalname |-> 0]]

\* fs.access(path.join(__dirname, 'processed', filename)) succeeds; a
\* reference with a directory part names no file of processed/ (and its
\* URL does not match the route)
FileFound(filename) ==
    /\ filename.dir = ""
    /\ \E f \in processed : f.name = filename.base

Download ==
    /\ response.status = 200
    /\ download = NoDownload
    /\ \E filename \in { response.results[i].processedPath :
                            i \in 1..Len(response.results) } \cup {NeverGenerated} :
          download' = [filename |-> filename,
                       status |-> IF FileFound(filename) THEN 200 ELSE 404]
    /\ UNCHANGED <<request, pc, loop, results, workers, response, disk, roundTrip,
                   clock, startTime, other>>

----------------------------------------------------------------------------
(* The host's clock *)

\* a millisecond passes
Tick ==
    /\ clock < env.ticks
    /\ clock' = clock + 1
    /\ UNCHANGED <<request, pc, loop, results, workers, response, disk, roundTrip,
                   startTime, download, other>>

\* the wall clock is set back (Date.now() is not monotonic)
ClockSetBack ==
    /\ clock > 0
    /\ \E t \in 0..(clock - 1) : clock' = t
    /\ UNCHANGED <<request, pc, loop, results, workers, response, disk, roundTrip,
                   startTime, download, other>>

----------------------------------------------------------------------------
(* A file that is encrypted, and the produced file decrypted again, by the  *)
(* read / caesarCipher / write steps of processSequentially, of a worker    *)
(* thread or of a child process                                             *)

\* the character codes the texts are made of: '@', 'A', 'Z', '[', 'a', 'z'
Chars == {64, 65, 90, 91, 97, 122}

Texts == UNION { [1..n -> Chars] : n \in 0..MaxLen } \cup {Hello}

Shifts == (0 - MaxShift)..MaxShift

EncryptFile ==
    /\ roundTrip.pc = "uploaded"
    /\ roundTrip' = [roundTrip EXCEPT
                        !.pc = "encrypted",
                        !.by = "server",
                        !.encrypted = caesarCipher(roundTrip.text, roundTrip.shift,
                                                   "encrypt" = "decrypt")]
    /\ UNCHANGED <<request, pc, loop, results, workers, response, disk, clock, startTime,
                 download, other>>

DecryptFile ==
    /\ roundTrip.pc = "encrypted"
    /\ roundTrip.by = "server"
    /\ roundTrip' = [roundTrip EXCEPT
                        !.pc = "decrypted",
                        !.decrypted = caesarCipher(roundTrip.encrypted, roundTrip.shift,
                                                   "decrypt" = "decrypt")]
    /\ UNCHANGED <<request, pc, loop, results, workers, response, disk, clock, startTime,
                 download, other>>

\* the same steps in the loop of crypto-worker.js
WorkerEncryptFile ==
    /\ roundTrip.pc = "uploaded"
    /\ roundTrip' = [roundTrip EXCEPT
                        !.pc = "encrypted",
                        !.by = "worker",
                        !.encrypted = workerCaesarCipher(roundTrip.text, roundTrip.shift,
                                                         "encrypt" = "decrypt")]
    /\ UNCHANGED <<request, pc, loop, results, workers, response, disk, clock, startTime,
                 download, other>>

WorkerDecryptFile ==
    /\ roundTrip.pc = "encrypted"
    /\ roundTrip.by = "worker"
    /\ roundTrip' = [roundTrip EXCEPT
                        !.pc = "decrypted",
                        !.decrypted = workerCaesarCipher(roundTrip.encrypted,
                                                         roundTrip.shift,
                                                         "decrypt" = "decrypt")]
    /\ UNCHANGED <<request, pc, loop, results, workers, response, disk, clock, startTime,
                 download, other>>

\* the same steps in the loop of crypto-process.js
ChildEncryptFile ==
    /\ roundTrip.pc = "uploaded"
    /\ roundTrip' = [roundTrip EXCEPT
                        !.pc = "encrypted",
                        !.by = "child",
                        !.encrypted = childCaesarCipher(roundTrip.text, roundTrip.shift,
                                                        "encrypt" = "decrypt")]
    /\ UNCHANGED <<request, pc, loop, results, workers, response, disk, clock, startTime,
                 download, other>>

ChildDecryptFile ==
    /\ roundTrip.pc = "encrypted"
    /\ roundTrip.by = "child"
    /\ roundTrip' = [roundTrip EXCEPT
                        !.pc = "decrypted",
                        !.decrypted = childCaesarCipher(roundTrip.encrypted,
                                                        roundTrip.shift,
                                                        "decrypt" = "decrypt")]
    /\ UNCHANGED <<request, pc, loop, results, workers, response, disk, clock, startTime,
                 download, other>>

CipherInit ==
    /\ files = <<>>
    /\ operation = "encrypt"
    /\ method = "sequential"
    /\ shift = 3
    /\ cores = 1
    /\ pc = "off"
    /\ loop = [i |-> 0, stage |-> "read"]
    /\ results = <<>>
    /\ workers = <<>>
    /\ response = NoResponse
    /\ processed = {}
    /\ env = QuietEnv
    /\ clock = 0
    /\ startTime = 0
    /\ writes = {}
    /\ download = NoDownload
    /\ other = NoRequest
    /\ roundTrip \in { [pc |-> "uploaded", text |-> t, shift |-> s, by |-> "",
                        encrypted |-> <<>>, decrypted |-> <<>>] :
                       t \in Texts, s \in Shifts }

CipherNext ==
    \/ EncryptFile
    \/ DecryptFile
    \/ WorkerEncryptFile
    \/ WorkerDecryptFile
    \/ ChildEncryptFile
    \/ ChildDecryptFile

CipherSpec == CipherInit /\ [][CipherNext]_vars

----------------------------------------------------------------------------
(* The dispatch loops alone, on every job count and every core count *)

DispatchInit ==
    /\ files \in { [i \in 1..n |-> [originalname |-> i, path |-> i,
                                     content |-> Hello, fault |-> "none"]] :
                    n \in 1..MaxBatch }
    /\ operation = "encrypt"
    /\ method \in {"multithreading", "multiprocessing"}
    /\ shift = 3
    /\ cores \in 1..MaxCores
    /\ pc = "idle"
    /\ loop = [i |-> 0, stage |-> "read"]
    /\ results = <<>>
    /\ workers = <<>>
    /\ response = NoResponse
    /\ processed = {}
    /\ env = QuietEnv
    /\ clock = 0
    /\ startTime = 0
    /\ writes = {}
    /\ download = NoDownload
    /\ other = NoRequest
    /\ roundTrip = IdleRoundTrip

DispatchNext == StartWorkerThreads \/ StartChildProcesses

DispatchSpec == DispatchInit /\ [][DispatchNext]_vars

----------------------------------------------------------------------------
(* The request from arrival to response *)

Next ==
    \/ RejectNoFiles
    \/ RejectInvalidMethod
    \/ StartSequential
    \/ StartWorkerThreads
    \/ StartChildProcesses
    \/ SeqRead
    \/ SeqWrite
    \/ \E w \in 1..Len(workers) : WorkerRead(w)
    \/ \E w \in 1..Len(workers) : WorkerWrite(w)
    \/ \E w \in 1..Len(workers) : WorkerExit(w)
    \/ \E w \in 1..Len(workers) : OnWorkerMessage(w)
    \/ \E w \in 1..Len(workers) : OnWorkerError(w)
    \/ \E w \in 1..Len(workers) : ChildRead(w)
    \/ \E w \in 1..Len(workers) : ChildWrite(w)
    \/ \E w \in 1..Len(workers) : ChildKilled(w)
    \/ \E w \in 1..Len(workers) : OnChildData(w)
    \/ \E w \in 1..Len(workers) : OnChildClose(w)
    \/ \E w \in 1..Len(workers) : OnChildError(w)
    \/ Download

Spec == Init /\ [][Next]_vars

\* every enabled step of the program, of a worker or of the event loop is
\* eventually taken
FairSpec == Spec /\ WF_vars(Next)

----------------------------------------------------------------------------
(* The request on a host whose clock moves and whose Math.random() returns  *)
(* several values; uploaded files may carry the same original name          *)

EnvJobLists ==
    UNION { { [i \in 1..n |-> [originalname |-> names[i], path |-> i,
                                content |-> Hello, fault |-> f[i]]] :
              names \in [1..n -> 1..n],
              f \in { g \in [1..n -> Faults] :
                        Cardinality({i \in 1..n : g[i] # "none"}) <= MaxFaults } } :
            n \in 0..MaxEnvJobs }

\* a host whose clock moves and whose Math.random() returns several values
ClockEnv == [ticks |-> MaxTicks, tokens |-> 1..MaxTokens, chunked |-> FALSE]

EnvInit ==
    /\ files \in EnvJobLists
    /\ operation = "encrypt"
    /\ method \in Methods
    /\ shift = 3
    /\ cores \in {1, 2}
    /\ pc = "idle"
    /\ loop = [i |-> 0, stage |-> "read"]
    /\ results = <<>>
    /\ workers = <<>>
    /\ response = NoResponse
    /\ processed = {}
    /\ env = ClockEnv
    /\ clock = 0
    /\ startTime = 0
    /\ writes = {}
    /\ download = NoDownload
    /\ other = NoRequest
    /\ roundTrip = IdleRoundTrip

EnvNext == Next \/ Tick \/ ClockSetBack

EnvSpec == EnvInit /\ [][EnvNext]_vars

----------------------------------------------------------------------------
(* The process strategy on a host whose pipes deliver a child's output in   *)
(* any number of 'data' events                                              *)

PipeEnv == [ticks |-> 0, tokens |-> {1}, chunked |-> TRUE]

PipeJobLists ==
    UNION { { [i \in 1..n |-> [originalname |-> i, path |-> i,
                                content |-> Hello, fault |-> f[i]]] :
              f \in { g \in [1..n -> Faults] :
                        Cardinality({i \in 1..n : g[i] # "none"}) <= MaxFaults } } :
            n \in 1..MaxPipeJobs }

PipeInit ==
    /\ files \in PipeJobLists
    /\ operation = "encrypt"
    /\ method = "multiprocessing"
    /\ shift = 3
    /\ cores \in {1, 2}
    /\ pc = "idle"
    /\ loop = [i |-> 0, stage |-> "read"]
    /\ results = <<>>
    /\ workers = <<>>
    /\ response = NoResponse
    /\ processed = {}
    /\ env = PipeEnv
    /\ clock = 0
    /\ startTime = 0
    /\ writes = {}
    /\ download = NoDownload
    /\ other = NoRequest
    /\ roundTrip = IdleRoundTrip

PipeNext ==
    \/ StartChildProcesses
    \/ \E w \in 1..Len(workers) : ChildRead(w)
    \/ \E w \in 1..Len(workers) : ChildWrite(w)
    \/ \E w \in 1..Len(workers) : ChildKilled(w)
    \/ \E w \in 1..Len(workers) : OnChildData(w)
    \/ \E w \in 1..Len(workers) : OnChildClose(w)
    \/ \E w \in 1..Len(workers) : OnChildError(w)

PipeSpec == PipeInit /\ [][PipeNext]_vars

----------------------------------------------------------------------------
(* Two POST /process requests in flight together.  Every invocation of the  *)
(* handler and of a strategy has its own body and its own locals (`files`,  *)
(* `results`, `workers` / `processes`, `startTime`, `res`); the event loop  *)
(* runs the turns of the two invocations in any order.  The actions above   *)
(* are the turns of the invocation whose locals are in the variables; the   *)
(* locals of the other one are kept in `other`.  The processed/ directory,  *)
(* the clock and the host are shared.                                       *)

\* the body and the locals of the invocation that is not running
Parked(id) ==
    [id |-> id, files |-> files, operation |-> operation, method |-> method,
     shift |-> shift, pc |-> pc, loop |-> loop, results |-> results,
     workers |-> workers, response |-> response, startTime |-> startTime]

\* the event loop with a `results` array declared once at module level and
\* used by every invocation
SwitchSharedResults ==
    /\ other # NoRequest
    /\ other' = [Parked(3 - other.id) EXCEPT !.results = other.results]
    /\ files' = other.files
    /\ operation' = other.operation
    /\ method' = other.method
    /\ shift' = other.shift
    /\ pc' = other.pc
    /\ loop' = other.loop
    /\ workers' = other.workers
    /\ response' = other.response
    /\ startTime' = other.startTime
    /\ UNCHANGED <<results, cores, env, disk, roundTrip, clock, download>>

\* the event loop goes on with a turn of the other invocation
Switch ==
    /\ other # NoRequest
    /\ other' = Parked(3 - other.id)
    /\ files' = other.files
    /\ operation' = other.operation
    /\ method' = other.method
    /\ shift' = other.shift
    /\ pc' = other.pc
    /\ loop' = other.loop
    /\ results' = other.results
    /\ workers' = other.workers
    /\ response' = other.response
    /\ startTime' = other.startTime
    /\ UNCHANGED <<cores, env, disk, roundTrip, clock, download>>

Strategies == {"sequential", "multithreading", "multiprocessing"}

\* the job lists of the first request, whose files are named 1, 2, ...
PairJobLists ==
    UNION { { [i \in 1..n |-> [originalname |-> i, path |-> i,
                                content |-> Hello, fault |-> f[i]]] :
              f \in { g \in [1..n -> Faults] :
                        Cardinality({i \in 1..n : g[i] # "none"}) <= MaxFaults } } :
            n \in 1..MaxPairJobs }

\* the job list of the second request: as many readable files as a request
\* may have, named MaxPairJobs + 1, MaxPairJobs + 2, ...
SecondJobList ==
    [i \in 1..MaxPairJobs |-> [originalname |-> MaxPairJobs + i,
                                path |-> MaxPairJobs + i,
                                content |-> Hello, fault |-> "none"]]

PairInit ==
    /\ files \in PairJobLists
    /\ operation = "encrypt"
    /\ method \in Strategies
    /\ shift = 3
    /\ cores \in {1, 2}
    /\ pc = "idle"
    /\ loop = [i |-> 0, stage |-> "read"]
    /\ results = <<>>
    /\ workers = <<>>
    /\ response = NoResponse
    /\ processed = {}
    /\ env = QuietEnv
    /\ clock = 0
    /\ startTime = 0
    /\ writes = {}
    /\ download = NoDownload
    /\ roundTrip = IdleRoundTrip
    /\ other \in { [id |-> 2, files |-> fs, operation |-> "encrypt", method |-> m,
                    shift |-> 3, pc |-> "idle", loop |-> [i |-> 0, stage |-> "read"],
                    results |-> <<>>, workers |-> <<>>, response |-> NoResponse,
                    startTime |-> 0] :
                   fs \in {SecondJobList}, m \in Strategies }

PairNext ==
    \/ StartSequential
    \/ StartWorkerThreads
    \/ StartChildProcesses
    \/ SeqRead
    \/ SeqWrite
    \/ \E w \in 1..Len(workers) : WorkerRead(w)
    \/ \E w \in 1..Len(workers) : WorkerWrite(w)
    \/ \E w \in 1..Len(workers) : OnWorkerMessage(w)
    \/ \E w \in 1..Len(workers) : OnWorkerError(w)
    \/ \E w \in 1..Len(workers) : ChildRead(w)
    \/ \E w \in 1..Len(workers) : ChildWrite(w)
    \/ \E w \in 1..Len(workers) : ChildKilled(w)
    \/ \E w \in 1..Len(workers) : OnChildData(w)
    \/ \E w \in 1..Len(workers) : OnChildClose(w)
    \/ Switch

PairSpec == PairInit /\ [][PairNext]_vars

----------------------------------------------------------------------------
(* Observations on a state, used by the properties below *)

\* the originalName values of a result list
Names(rs) == { rs[i].originalName : i \in 1..Len(rs) }

\* how many entries of a list carry the name n
Occurrences(rs, n) == Cardinality({ i \in 1..Len(rs) : rs[i].originalName = n })

\* the failure entries of a response body
Failures(body) == IF "failures" \in DOMAIN body THEN body.failures ELSE <<>>

\* the {originalName, size} pairs of a result list
NameSizes(rs) == { [originalName |-> rs[i].originalName, size |-> rs[i].size] :
                   i \in 1..Len(rs) }

JobNames(fs) == { fs[i].originalname : i \in 1..Len(fs) }

Parallel == method \in {"multithreading", "multiprocessing"}

Dispatched == Parallel /\ pc \in {"join", "done", "error"}

Answered == response.status \in {200, 500}

FaultyJobs == { i \in 1..Len(files) : files[i].fault # "none" }

\* worker w ended in a way its own script does not provide for
Crashed(w) ==
    \/ method = "multithreading" /\ workers[w].status \in {"crashed", "ended"}
    \/ method = "multiprocessing" /\ workers[w].status = "failed"
    \/ method = "multiprocessing" /\ workers[w].status = "exited"
                                  /\ workers[w].exitCode < 0

NoCrash == \A w \in 1..Len(workers) : ~Crashed(w)

RECURSIVE Flatten(_)
Flatten(ss) == IF ss = <<>> THEN <<>> ELSE Head(ss) \o Flatten(Tail(ss))

ShardsOf(ws) == [w \in 1..Len(ws) |-> ws[w].files]

ShardSizes(ws) == [w \in 1..Len(ws) |-> Len(ws[w].files)]

\* what processSequentially returns for a job list: the entries of the files
\* whose read and write succeed, in order
RECURSIVE SequentialNameSizes(_)
SequentialNameSizes(fs) ==
    IF fs = <<>> THEN {}
    ELSE (IF Head(fs).fault = "none"
          THEN {[originalName |-> Head(fs).originalname, size |-> Len(Head(fs).content)]}
          ELSE {})
         \cup SequentialNameSizes(Tail(fs))

----------------------------------------------------------------------------
(* Properties *)

\* C1: when process() returns an outcome, every submitted job appears exactly
\* once in it, as a result entry or as a failure entry with its originalName.
EveryJobAccountedOnce ==
    response.status = 200 =>
        \A i \in 1..Len(files) :
            Occurrences(response.results, files[i].originalname)
              + Occurrences(Failures(response), files[i].originalname) = 1

\* C2: if exactly one job has an unreadable source and nothing else goes
\* wrong, the batch completes with a result for every other job and a failure
\* entry for that job, under every strategy.
FaultIsolation ==
    ( /\ method \in {"sequential", "multithreading", "multiprocessing"}
      /\ response.status # 0
      /\ Cardinality(FaultyJobs) = 1
      /\ \A i \in FaultyJobs : files[i].fault = "read"
      /\ NoCrash )
    => /\ response.status = 200
       /\ Names(response.results) = JobNames(files) \ FaultyJobs
       /\ Names(Failures(response)) = FaultyJobs

\* C3: for the same job list and the same readable / unreadable sources, the
\* outcome of every strategy holds the {originalName, size} results that
\* processSequentially produces, hence the same failed jobs.
StrategyEquivalence ==
    response.status = 200 =>
        NameSizes(response.results) = SequentialNameSizes(files)

\* C4: the shards dispatched by the thread and the process strategy,
\* concatenated in dispatch order, are the job list: their lengths sum to its
\* length, no job is in two shards and none is omitted.
PartitionComplete ==
    Dispatched =>
        /\ Flatten(ShardsOf(workers)) = files
        /\ Len(Flatten(ShardsOf(workers))) = Len(files)
        /\ \A v, w \in 1..Len(workers) :
               v # w => JobNames(workers[v].files) \cap JobNames(workers[w].files) = {}
        /\ UNION { JobNames(workers[w].files) : w \in 1..Len(workers) } = JobNames(files)

\* C4 witness: five jobs on a four-core host have been dispatched in shards
\* of unequal size.
PartitionCompleteWitness ==
    /\ Dispatched
    /\ Len(files) = 5
    /\ cores = 4
    /\ Len(workers) >= 2
    /\ Len(workers[Len(workers)].files) < Len(workers[1].files)

\* C5 as stated: the thread strategy dispatches min(cores, jobs) workers, and
\* 5 jobs on 4 cores go to 4 shards of sizes 2, 1, 1, 1.
ThreadDispatchesMinCoresJobs ==
    (method = "multithreading" /\ Dispatched) =>
        /\ Len(workers) = MathMin(cores, Len(files))
        /\ (Len(files) = 5 /\ cores = 4) => ShardSizes(workers) = <<2, 1, 1, 1>>

\* C5 amended: the thread strategy computes numWorkers = min(cores, jobs) and
\* a shard size of ceil(jobs / numWorkers), and dispatches ceil(jobs / shard
\* size) workers, which is at most numWorkers; 5 jobs on 4 cores give
\* numWorkers = 4 and 3 shards of sizes 2, 2, 1, and the outcome returned when
\* no file fails holds 5 results and no failure.
ThreadDispatchesCeilShards ==
    (method = "multithreading" /\ Dispatched) =>
        LET n == IF cores <= Len(files) THEN cores ELSE Len(files)
            size == (Len(files) + n - 1) \div n
        IN  /\ numWorkersOf(files, cores) = n
            /\ Len(workers) = (Len(files) + size - 1) \div size
            /\ Len(workers) <= n
            /\ (Len(files) = 5 /\ cores = 4) =>
                   /\ n = 4
                   /\ ShardSizes(workers) = <<2, 2, 1>>
                   /\ (response.status = 200 /\ FaultyJobs = {}) =>
                          /\ Len(response.results) = 5
                          /\ Names(response.results) = 1..5
                          /\ Failures(response) = <<>>

\* C5 witness: 5 readable jobs on 4 cores, thread strategy, outcome returned.
ThreadDispatchWitness ==
    /\ method = "multithreading"
    /\ Len(files) = 5
    /\ cores = 4
    /\ FaultyJobs = {}
    /\ Len(workers) = 3
    /\ response.status = 200
    /\ Len(response.results) = 5

\* C6: under the thread and process strategies the caller gets an outcome or
\* an error only after every dispatched worker has signalled completion; no
\* worker of the invocation is still running at the moment of return.
JoinBeforeReturn ==
    (Parallel /\ Answered) =>
        \A w \in 1..Len(workers) :
            /\ workers[w].status # "running"
            /\ workers[w].promise # "pending"

\* every dispatched worker has terminated: it posted its message, raised an
\* error event, or ended without a message
AllWorkersTerminated ==
    /\ Dispatched
    /\ \A w \in 1..Len(workers) : workers[w].status # "running"

\* C7: if every dispatched worker terminates in some way, the invocation of
\* the thread or process strategy eventually returns to the caller.
JoinCannotHang == AllWorkersTerminated ~> Answered

\* C8: under the process strategy, when one child exits with a non-zero
\* status the caller still receives an outcome with the results of every
\* other child's shard, and the failed child's jobs are reported as failures.
ChildExitIsolated ==
    ( /\ method = "multiprocessing"
      /\ response.status # 0
      /\ Cardinality({ w \in 1..Len(workers) :
                         workers[w].status = "exited" /\ workers[w].exitCode > 0 }) = 1
      /\ \A w \in 1..Len(workers) : workers[w].closed )
    => /\ response.status = 200
       /\ \A w \in 1..Len(workers) :
              IF workers[w].exitCode > 0
              THEN JobNames(workers[w].files) \subseteq Names(Failures(response))
              ELSE JobNames(workers[w].files) \subseteq Names(response.results)

\* C9: under the thread strategy, when one worker crashes before posting its
\* message the caller still receives the results of all other workers, and
\* every job of the crashed worker's shard is reported as a failure.
WorkerCrashIsolated ==
    ( /\ method = "multithreading"
      /\ response.status # 0
      /\ Cardinality({ w \in 1..Len(workers) : workers[w].status = "crashed" }) = 1
      /\ \A w \in 1..Len(workers) : workers[w].status \in {"crashed", "finished"} )
    => /\ response.status = 200
       /\ \A w \in 1..Len(workers) :
              IF workers[w].status = "crashed"
              THEN JobNames(workers[w].files) \subseteq Names(Failures(response))
              ELSE JobNames(workers[w].files) \subseteq Names(response.results)

\* C10: for every ASCII text and every shift in 1..25, decrypting the
\* encrypted text with the same shift gives the text back, so the file
\* produced by encrypting and then decrypting a file has the original content.
RoundTrip ==
    (roundTrip.pc = "decrypted" /\ roundTrip.shift \in 1..25) =>
        roundTrip.decrypted = roundTrip.text

\* C10 witness: a text with letters of both cases and a non-letter has been
\* encrypted with shift 25 into a different text and decrypted again.
RoundTripWitness ==
    /\ roundTrip.pc = "decrypted"
    /\ roundTrip.shift = 25
    /\ roundTrip.text = <<65, 122, 64>>
    /\ roundTrip.encrypted = <<90, 121, 64>>
    /\ roundTrip.decrypted = roundTrip.text

\* C11: for every integer shift, also 0, negative or above 26, and in both
\* directions, every ASCII letter is mapped to a letter of the same case and
\* decrypting the encrypted text with the same shift gives the text back.
ShiftNormalised ==
    roundTrip.pc = "decrypted" =>
        /\ \A i \in 1..Len(roundTrip.text) :
               LET c == roundTrip.text[i]
                   e == roundTrip.encrypted[i]
               IN  /\ (c >= 65 /\ c <= 90) => (e >= 65 /\ e <= 90)
                   /\ (c >= 97 /\ c <= 122) => (e >= 97 /\ e <= 122)
        /\ roundTrip.decrypted = roundTrip.text

\* C12: no two writes target the same output path: two jobs written by one
\* invocation, under any strategy, never get the same generated file name,
\* also when they carry the same originalName and are written within the
\* same millisecond.
NoTwoWritesSamePath ==
    \A a, b \in writes : a.name = b.name => a.path = b.path

\* the request is one that POST /process rejects: no file, or a method that
\* is none of the three strategies
Invalid ==
    \/ Len(files) = 0
    \/ method \notin {"multithreading", "multiprocessing", "sequential"}

\* C13: a request with no files or with an unknown method is rejected with
\* an error to the caller (status 400) before any shard is created, any
\* worker or child process is started, or any file is read or written.
RejectedBeforeAnyWork ==
    Invalid =>
        /\ pc \in {"idle", "rejected"}
        /\ pc = "rejected" <=> response.status = 400
        /\ response.status \in {0, 400}
        /\ response.status = 400 => ~response.success
        /\ workers = <<>>
        /\ results = <<>>
        /\ loop = [i |-> 0, stage |-> "read"]
        /\ processed = {}
        /\ writes = {}

\* C13 witness: a request with five files and an unknown method has been
\* answered with status 400.
RejectedWitness ==
    /\ Len(files) = 5
    /\ method = "unknown"
    /\ pc = "rejected"
    /\ response = BadRequest("Invalid processing method")

\* C14: every result entry of an outcome reports, as its output reference,
\* exactly the generated file name, so the fetch made with that reference
\* right after the outcome finds the file; a fetch by a name that was never
\* generated is answered NotFound.
OutputRefFetches ==
    /\ response.status = 200 =>
           \A i \in 1..Len(response.results) :
               /\ response.results[i].processedPath.dir = ""
               /\ \E f \in processed : f.name = response.results[i].processedPath.base
    /\ download # NoDownload =>
           download.status = IF download.filename = NeverGenerated THEN 404 ELSE 200

\* C15: for every job count L >= 1 and core count C >= 1 the thread and the
\* process strategy dispatch at most min(C, L) shards; every dispatched shard
\* is non-empty and is the next contiguous run of the job list; every shard
\* but the last has exactly ceil(L / min(C, L)) jobs; the slices before the
\* first empty one are all dispatched and no shard is dispatched after it.
ShardsContiguousCeil ==
    Dispatched =>
        LET L == Len(files)
            n == IF cores <= L THEN cores ELSE L
            size == (L + n - 1) \div n
            last == Len(workers)
        IN  /\ last >= 1
            /\ last <= n
            /\ \A w \in 1..last :
                   /\ Len(workers[w].files) >= 1
                   /\ workers[w].files =
                          SubSeq(files, (w - 1) * size + 1,
                                 IF w * size <= L THEN w * size ELSE L)
                   /\ w < last => Len(workers[w].files) = size
            /\ (last - 1) * size < L
            /\ last < n => last * size >= L

\* C15 witness: seven jobs on a five-core host have been given to child
\* processes in shards of 2, 2, 2 and 1 jobs; the fifth slice is empty.
ShardsContiguousWitness ==
    /\ Dispatched
    /\ method = "multiprocessing"
    /\ Len(files) = 7
    /\ cores = 5
    /\ ShardSizes(workers) = <<2, 2, 2, 1>>

\* the entries of the aggregate that belong to the jobs of child w's shard
MergedOf(w) ==
    LET mine(r) == r.originalName \in JobNames(workers[w].files)
    IN  SelectSeq(results, mine)

\* the text child w has written so far is a prefix of the one list it emits
IsPrefix(s, t) == Len(s) <= Len(t) /\ s = SubSeq(t, 1, Len(s))

\* C16: under the process strategy each child's stdout is accumulated in a
\* buffer of its own and parsed only after that child has closed: for every
\* interleaving of the data and close events of the children, the aggregate
\* holds of each child either nothing or the whole list that child emitted,
\* once, contiguous and in the child's order; it holds no partial list and no
\* entry of another origin.
ChildListsMergedWhole ==
    (method = "multiprocessing" /\ Dispatched) =>
        /\ \A w \in 1..Len(workers) :
               /\ MergedOf(w) \in {<<>>, workers[w].results}
               /\ MergedOf(w) # <<>> =>
                      /\ workers[w].closed
                      /\ workers[w].exitCode = 0
                      /\ Len(workers[w].results) = Len(workers[w].files)
                      /\ workers[w].output = JSONStringify(workers[w].results)
               /\ \/ IsPrefix(workers[w].output, JSONStringify(workers[w].results))
                  \/ IsPrefix(workers[w].output, JSONStringify(<<>>))
        /\ \A i \in 1..Len(results) :
               \E w \in 1..Len(workers) :
                   \E j \in 1..Len(workers[w].results) :
                       results[i] = workers[w].results[j]
        /\ \A i, j \in 1..Len(results) : i # j => results[i] # results[j]
        /\ response.status = 200 =>
               /\ response.results = results
               /\ \A w \in 1..Len(workers) : MergedOf(w) = workers[w].results

\* C16 witness: of two children the second has closed and its list of two
\* entries has been merged, while the first child's output has arrived only
\* in part.
ChildListsMergedWitness ==
    /\ method = "multiprocessing"
    /\ Len(workers) = 2
    /\ workers[2].closed
    /\ Len(workers[2].results) = 1
    /\ results = workers[2].results
    /\ workers[1].output # <<>>
    /\ workers[1].stdout # <<>>
    /\ Len(workers[1].results) = 2

\* the position in the job list of the job with a given originalName (the
\* jobs of a request run to its response carry distinct names)
Position(name) == CHOOSE i \in 1..Len(files) : files[i].originalname = name

\* the entries of a result list that belong to one shard are in submission order
InShardOrder(rs, shard) ==
    \A i, j \in 1..Len(rs) :
        ( /\ i < j
          /\ rs[i].originalName \in JobNames(shard)
          /\ rs[j].originalName \in JobNames(shard) )
        => Position(rs[i].originalName) < Position(rs[j].originalName)

\* C17: for every interleaving of worker completions, the results of the jobs
\* of one shard appear in the aggregate, and in the outcome returned, in
\* their submission order; under the sequential strategy the whole result
\* list is in submission order.
WithinShardOrder ==
    /\ Parallel =>
           \A w \in 1..Len(workers) :
               /\ InShardOrder(results, workers[w].files)
               /\ response.status = 200 =>
                      InShardOrder(response.results, workers[w].files)
    /\ method = "sequential" =>
           /\ InShardOrder(results, files)
           /\ response.status = 200 => InShardOrder(response.results, files)

\* C17 witness: of two worker threads the second completed first, so the
\* outcome lists jobs 4 and 5 before jobs 1, 2 and 3.
WithinShardOrderWitness ==
    /\ method = "multithreading"
    /\ Len(workers) = 2
    /\ response.status = 200
    /\ Len(response.results) = 5
    /\ response.results[1].originalName = 4
    /\ response.results[3].originalName = 1

\* C18: caesarCipher changes only ASCII letters: with a shift s in 0..25 an
\* uppercase letter becomes the uppercase letter s positions later, wrapping
\* from Z to A, a lowercase letter likewise within a..z, and every other
\* character stays as it is at its position, so the length is kept ("Hello"
\* with shift 3 becomes "Khoor"); the copies of the worker thread and of the
\* child process compute what the server's copy computes, for every text,
\* every shift and both directions.
CipherLettersOnly ==
    /\ roundTrip.pc \in {"encrypted", "decrypted"} =>
           LET t == roundTrip.text
               s == roundTrip.shift
               e == roundTrip.encrypted
           IN  /\ e = caesarCipher(t, s, FALSE)
               /\ s \in 0..25 =>
                      /\ Len(e) = Len(t)
                      /\ \A i \in 1..Len(t) :
                             IF t[i] >= 65 /\ t[i] <= 90
                             THEN e[i] = 65 + ((t[i] - 65 + s) % 26)
                             ELSE IF t[i] >= 97 /\ t[i] <= 122
                             THEN e[i] = 97 + ((t[i] - 97 + s) % 26)
                             ELSE e[i] = t[i]
               /\ (t = Hello /\ s = 3) => e = <<75, 104, 111, 111, 114>>
    /\ roundTrip.pc = "decrypted" =>
           roundTrip.decrypted =
               caesarCipher(roundTrip.encrypted, roundTrip.shift, TRUE)

\* C18 witness: a worker thread has encrypted "Hello" with shift 3 into
\* "Khoor".
CipherLettersWitness ==
    /\ roundTrip.pc = "encrypted"
    /\ roundTrip.by = "worker"
    /\ roundTrip.text = Hello
    /\ roundTrip.shift = 3
    /\ roundTrip.encrypted = <<75, 104, 111, 111, 114>>

\* C19: the processingTime of every returned outcome is an integer >= 0,
\* also when the system's wall clock is adjusted between the start and the
\* end of the invocation.
ProcessingTimeNonNegative ==
    response.status = 200 =>
        /\ response.processingTime \in Int
        /\ response.processingTime >= 0

\* C20: no orphaned outputs: under every strategy, every file written to the
\* processed directory during an invocation is referenced by a result entry
\* of the outcome returned for it; when a later job of a shard fails, the
\* files already written for its earlier jobs are still reported.
NoOrphanedOutputs ==
    (response.status = 200 /\ NoCrash) =>
        \A f \in processed :
            \E i \in 1..Len(response.results) :
                response.results[i].processedPath.base = f.name

\* the invocation whose turn is running, as a record like `other`
Running == Parked(3 - other.id)

\* the names an invocation's outcome holds when nothing but its own files
\* and workers decides it: sequential drops a file that fails; a worker
\* thread that meets a failing file posts an empty list for its shard
OwnNames(r) ==
    IF r.method = "sequential"
    THEN { r.files[i].originalname :
             i \in { j \in 1..Len(r.files) : r.files[j].fault = "none" } }
    ELSE UNION { JobNames(r.workers[w].files) :
                   w \in { v \in 1..Len(r.workers) :
                             \A j \in 1..Len(r.workers[v].files) :
                                 r.workers[v].files[j].fault = "none" } }

\* worker w of invocation r failed: it died of an error, or it is a child
\* that exited with a status other than 0 after one of its own files failed,
\* or that was killed
OwnWorkerFailed(r, w) ==
    \/ r.method = "multithreading" /\ r.workers[w].status = "crashed"
    \/ /\ r.method = "multiprocessing"
       /\ r.workers[w].status = "exited"
       /\ r.workers[w].exitCode # 0
       /\ r.workers[w].exitCode > 0 =>
              \E j \in 1..Len(r.workers[w].files) :
                  r.workers[w].files[j].fault # "none"

IsolatedOutcome(r) ==
    /\ Names(r.results) \subseteq JobNames(r.files)
    /\ r.response.status \in {0, 200, 500}
    /\ r.response.status = 200 =>
           /\ Names(r.response.results) = OwnNames(r)
           /\ Len(r.response.results) = Cardinality(OwnNames(r))
           /\ \A w \in 1..Len(r.workers) : ~OwnWorkerFailed(r, w)
    /\ r.response.status = 500 =>
           \E w \in 1..Len(r.workers) : OwnWorkerFailed(r, w)
    /\ \A w \in 1..Len(r.workers) :
           r.workers[w].promise = "rejected" => OwnWorkerFailed(r, w)

\* C21: invocations are isolated: when two process() requests of any two
\* strategies run concurrently, each returned outcome holds result entries
\* for jobs of its own request only, namely those its own files and workers
\* account for, and a request is answered with an error only when a worker
\* of its own failed: the completion or failure of a worker of one request
\* adds nothing to, removes nothing from and does not fail the outcome of
\* the other.
InvocationsIsolated ==
    other # NoRequest => IsolatedOutcome(Running) /\ IsolatedOutcome(other)

\* C21 witness: a request of two files run by child processes has got its
\* outcome with both results, while the request in flight with it, run by
\* worker threads, was failed by the crash of one of its workers after
\* another one had delivered its results.
InvocationsIsolatedWitness ==
    /\ other # NoRequest
    /\ method = "multiprocessing"
    /\ response.status = 200
    /\ Len(files) = 2
    /\ Names(response.results) = {1, 2}
    /\ other.method = "multithreading"
    /\ other.response.status = 500
    /\ other.results # <<>>

====
